---- MODULE Spec2Model ----
(***************************************************************************)
(* Model of update_feeds.py: three scraping extractors, the RSS builder,   *)
(* the lastBuildDate-only fallback updater and the sequential main loop.   *)
(*                                                                         *)
(* Text is modelled as a sequence of tokens (the empty string is <<>>), a  *)
(* parsed page as the sequence of its <a> elements in document order, an   *)
(* XML file as its element tree.                                           *)
(***************************************************************************)
EXTENDS Integers, Sequences, FiniteSets, TLC

VARIABLES
    clock,      \* seconds elapsed on the UTC wall clock since Epoch
    files,      \* files[i]: content of the feed file of source i
    idx,        \* position of main()'s for loop: index of the source in hand
    phase,      \* "fetch" | "write" | "done" | "aborted" in main(); "extract" |
                \* "extracted" | "build" | "built" when a function is run alone
    resp,       \* what the last HTTP GET met: [kind, page]
    items,      \* list returned by the last fetcher call
    raised,     \* TRUE iff the last fetcher call went through its except clause
    requests,   \* requests[i]: GETs sent to source i in this invocation
    lastOp,     \* [src, op]: the branch main() took last in this invocation
    bChannel,   \* channel argument of the last build_rss call
    bItems,     \* items argument of the last build_rss call
    bDoc        \* tree returned by the last build_rss call

vars == <<clock, files, idx, phase, resp, items, raised, requests,
          lastOp, bChannel, bItems, bDoc>>

----------------------------------------------------------------------------
(* Bounds of the model and constants of the program *)

MaxItems == 10
MaxClock == 1
MaxFill == 11
MaxPageLen == 2

----------------------------------------------------------------------------
(* Text: sequences of tokens *)

W(s) == [s |-> s, dd |-> 0, mm |-> 0, yyyy |-> 0]

D(d, m, y) == [s |-> "dd/mm/yyyy", dd |-> d, mm |-> m, yyyy |-> y]

IsSpace(tok) == tok.s = " "

IsDate(tok) == tok.s = "dd/mm/yyyy"

RECURSIVE LStrip(_)
LStrip(t) ==
    IF t # <<>> /\ IsSpace(Head(t)) THEN LStrip(Tail(t)) ELSE t

RECURSIVE RStrip(_)
RStrip(t) ==
    IF t # <<>> /\ IsSpace(t[Len(t)]) THEN RStrip(SubSeq(t, 1, Len(t) - 1)) ELSE t

\* str.strip()
Strip(t) == RStrip(LStrip(t))

\* pat in s
IsInfix(pat, s) ==
    \E i \in 0..(Len(s) - Len(pat)) : SubSeq(s, i + 1, i + Len(pat)) = pat

\* s.startswith(pat)
StartsWith(s, pat) ==
    Len(pat) <= Len(s) /\ SubSeq(s, 1, Len(pat)) = pat

\* s.endswith(pat)
EndsWith(s, pat) ==
    Len(pat) <= Len(s) /\ SubSeq(s, Len(s) - Len(pat) + 1, Len(s)) = pat

\* html.unescape on one token: a named or numeric character reference is
\* replaced by its character; a reference to an invalid code point by nothing
UnescapeToken(tok) ==
    IF tok.s = "&amp;" THEN <<W("&")>>
    ELSE IF tok.s = "&#1;" THEN <<>>
    ELSE <<tok>>

RECURSIVE html_unescape(_)
html_unescape(t) ==
    IF t = <<>> THEN <<>> ELSE UnescapeToken(Head(t)) \o html_unescape(Tail(t))

----------------------------------------------------------------------------
(* datetime *)

Epoch == [year |-> 2025, month |-> 7, day |-> 23]

utcnow == [year |-> Epoch.year, month |-> Epoch.month, day |-> Epoch.day,
           sec |-> clock]

IsLeap(y) == y % 4 = 0 /\ (y % 100 # 0 \/ y % 400 = 0)

DaysInMonth(y, m) ==
    IF m = 2 THEN (IF IsLeap(y) THEN 29 ELSE 28)
    ELSE IF m \in {4, 6, 9, 11} THEN 30 ELSE 31

RECURSIVE DaysBeforeMonth(_, _)
DaysBeforeMonth(y, m) ==
    IF m <= 1 THEN 0 ELSE DaysBeforeMonth(y, m - 1) + DaysInMonth(y, m - 1)

DaysBeforeYear(y) ==
    (y - 1) * 365 + ((y - 1) \div 4) - ((y - 1) \div 100) + ((y - 1) \div 400)

ToOrdinal(dt) == DaysBeforeYear(dt.year) + DaysBeforeMonth(dt.year, dt.month) + dt.day

DayNames == <<"Mon", "Tue", "Wed", "Thu", "Fri", "Sat", "Sun">>

MonthNames == <<"Jan", "Feb", "Mar", "Apr", "May", "Jun",
                "Jul", "Aug", "Sep", "Oct", "Nov", "Dec">>

\* dt.strftime("%a, %d %b %Y %H:%M:%S +0000"): one piece of text
strftime(dt) ==
    <<[a |-> DayNames[((ToOrdinal(dt) + 6) % 7) + 1], d |-> dt.day,
       b |-> MonthNames[dt.month], Y |-> dt.year, HMS |-> dt.sec]>>

\* re.search(r"(\d{2}/\d{2}/\d{4})", title): the first match, if any
HasDateMatch(title) == \E i \in 1..Len(title) : IsDate(title[i])

DateMatch(title) ==
    title[CHOOSE i \in 1..Len(title) :
            IsDate(title[i]) /\ \A j \in 1..(i - 1) : ~IsDate(title[j])]

\* datetime.strptime(text, "%d/%m/%Y") raises ValueError unless this holds
StrptimeOk(tok) ==
    /\ tok.yyyy >= 1
    /\ tok.mm \in 1..12
    /\ tok.dd \in 1..DaysInMonth(tok.yyyy, tok.mm)

strptime(tok) == [year |-> tok.yyyy, month |-> tok.mm, day |-> tok.dd, sec |-> 0]

----------------------------------------------------------------------------
(* Pages: the <a> elements of the parsed document, in document order *)

Anchor(hasHref, href, text, hasTitle, title) ==
    [hasHref |-> hasHref, href |-> href, text |-> text,
     hasTitle |-> hasTitle, title |-> title]

\* soup.find_all("a", href=True)
find_all_a_href(page) == SelectSeq(page, LAMBDA a : a.hasHref)

\* a.get_text(strip=True)
get_text(a) == Strip(a.text)

\* a.get("title", default)
get_title(a, default) == IF a.hasTitle THEN a.title ELSE default

NewsDev == <<W("/news/"), W("dev")>>

YouTube == <<W("https://www.youtube.com")>>

News == <<W("/news/")>>

Shtml == <<W(".shtml")>>

\* "/news/dev" in href or href.startswith("https://www.youtube.com")
MatchDev(href) == IsInfix(NewsDev, href) \/ StartsWith(href, YouTube)

\* "/news/" in href and href.endswith(".shtml")
MatchReview(href) == IsInfix(News, href) /\ EndsWith(href, Shtml)

Item(title, pub, href) ==
    [title |-> html_unescape(title), description |-> html_unescape(title),
     pubDate |-> pub, link |-> href, guid |-> href, enclosure_url |-> <<>>]

ReachedCapOffByOne(acc) == Len(acc) > MaxItems

\* if len(items) >= 10: break
ReachedCap(acc) == Len(acc) >= MaxItems

\* title = a.get_text(strip=True); if not title: title = a.get("title", default)
TitleOf(a, default) ==
    IF get_text(a) # <<>> THEN get_text(a) ELSE get_title(a, default)

LeagueDefault == <<W("League dev update")>>

ValorantDefault == <<W("VALORANT dev update")>>

\* The loop of fetch_league_dev over the candidates still to visit; acc is
\* the list built so far.  An exception leaves the loop with acc as it is.
RECURSIVE LeagueLoop(_, _, _)
LeagueLoop(cands, acc, now) ==
    IF cands = <<>> THEN [items |-> acc, raised |-> FALSE]
    ELSE LET a == Head(cands)
             title == TitleOf(a, LeagueDefault)
         IN  IF ~MatchDev(a.href) THEN LeagueLoop(Tail(cands), acc, now)
             ELSE IF HasDateMatch(title) /\ ~StrptimeOk(DateMatch(title))
             THEN [items |-> acc, raised |-> TRUE]
             ELSE LET dt == IF HasDateMatch(title)
                            THEN strptime(DateMatch(title)) ELSE now
                      acc2 == Append(acc, Item(title, strftime(dt), a.href))
                  IN  IF ReachedCap(acc2)
                      THEN [items |-> acc2, raised |-> FALSE]
                      ELSE LeagueLoop(Tail(cands), acc2, now)

RECURSIVE ValorantLoop(_, _, _)
ValorantLoop(cands, acc, now) ==
    IF cands = <<>> THEN [items |-> acc, raised |-> FALSE]
    ELSE LET a == Head(cands)
             title == TitleOf(a, ValorantDefault)
         IN  IF ~MatchDev(a.href) THEN ValorantLoop(Tail(cands), acc, now)
             ELSE LET acc2 == Append(acc, Item(title, strftime(now), a.href))
                  IN  IF ReachedCap(acc2)
                      THEN [items |-> acc2, raised |-> FALSE]
                      ELSE ValorantLoop(Tail(cands), acc2, now)

RECURSIVE GamerskyLoop(_, _, _)
GamerskyLoop(cands, acc, now) ==
    IF cands = <<>> THEN [items |-> acc, raised |-> FALSE]
    ELSE LET a == Head(cands)
             title == get_text(a)
         IN  IF ~MatchReview(a.href) \/ title = <<>>
             THEN GamerskyLoop(Tail(cands), acc, now)
             ELSE LET acc2 == Append(acc, Item(title, strftime(now), a.href))
                  IN  IF ReachedCap(acc2)
                      THEN [items |-> acc2, raised |-> FALSE]
                      ELSE GamerskyLoop(Tail(cands), acc2, now)

\* requests.get raises on a network failure or timeout, raise_for_status on
\* a status outside 2xx: both are caught with items still empty
Failed(r) == r.kind # "ok"

NoItems == [items |-> <<>>, raised |-> TRUE]

fetch_league_dev(r, now) ==
    IF Failed(r) THEN NoItems ELSE LeagueLoop(find_all_a_href(r.page), <<>>, now)

fetch_valorant_dev(r, now) ==
    IF Failed(r) THEN NoItems ELSE ValorantLoop(find_all_a_href(r.page), <<>>, now)

fetch_gamersky_reviews(r, now) ==
    IF Failed(r) THEN NoItems ELSE GamerskyLoop(find_all_a_href(r.page), <<>>, now)

----------------------------------------------------------------------------
(* XML trees.  An element is [tag, text, sub, attrs]; a file is            *)
(* [kind, hasChannel, chan]: kind says whether ET.parse can read it, chan   *)
(* is the sequence of children of the first channel child of the root.     *)

Element(tag, text, sub, attrs) ==
    [tag |-> tag, text |-> text, sub |-> sub, attrs |-> attrs]

Attr(name, value) == [name |-> name, value |-> value]

KeyPresent(d, key) == key \in DOMAIN d

\* key in d and d[key]
Truthy(d, key) == key \in DOMAIN d /\ d[key] # <<>>

ChannelKeys == <<"title", "link", "description", "language">>

ItemTags == <<"title", "description", "pubDate", "link", "guid">>

\* for key in keys: if key in d and d[key]: SubElement(parent, key).text = d[key]
RECURSIVE SubElements(_, _)
SubElements(d, keys) ==
    IF keys = <<>> THEN <<>>
    ELSE (IF Truthy(d, Head(keys))
          THEN <<Element(Head(keys), d[Head(keys)], <<>>, {})>> ELSE <<>>)
         \o SubElements(d, Tail(keys))

\* if item.get("enclosure_url"): SubElement(it_elem, "enclosure", url=..., ...)
Enclosure(item) ==
    IF Truthy(item, "enclosure_url")
    THEN <<Element("enclosure", <<>>, <<>>,
                   {Attr("url", item["enclosure_url"]),
                    Attr("length", <<W("0")>>),
                    Attr("type", <<W("image/*")>>)})>>
    ELSE <<>>

ItemElement(item) ==
    Element("item", <<>>, SubElements(item, ItemTags) \o Enclosure(item), {})

ItemElementsReversed(its) ==
    [k \in 1..Len(its) |-> ItemElement(its[Len(its) + 1 - k])]

\* for item in items: it_elem = ET.SubElement(chan, "item") ...
ItemElements(its) == [k \in 1..Len(its) |-> ItemElement(its[k])]

build_rss(channel, its, now) ==
    [kind |-> "xml", hasChannel |-> TRUE,
     chan |-> SubElements(channel, ChannelKeys)
              \o <<Element("lastBuildDate", strftime(now), <<>>, {})>>
              \o ItemElements(its)]

\* chan.find("lastBuildDate"): the first such child
HasLastBuild(chan) == \E k \in 1..Len(chan) : chan[k].tag = "lastBuildDate"

FindLastBuild(chan) ==
    CHOOSE k \in 1..Len(chan) :
        /\ chan[k].tag = "lastBuildDate"
        /\ \A j \in 1..(k - 1) : chan[j].tag # "lastBuildDate"

lastbuild_adds_element(f, now, canWrite) ==
    IF f.kind = "xml" /\ f.hasChannel /\ canWrite
    THEN IF HasLastBuild(f.chan)
         THEN [f EXCEPT !.chan[FindLastBuild(f.chan)].text = strftime(now)]
         ELSE [f EXCEPT !.chan = Append(f.chan, Element("lastBuildDate", strftime(now), <<>>, {}))]
    ELSE f

lastbuild_drops_items(f, now, canWrite) ==
    IF f.kind = "xml" /\ f.hasChannel /\ HasLastBuild(f.chan) /\ canWrite
    THEN [f EXCEPT !.chan = <<Element("lastBuildDate", strftime(now), <<>>, {})>>]
    ELSE f

\* The file after update_lastbuild_only(file_path).  ET.parse raises on a
\* missing, unreadable or malformed file, tree.write on a file that cannot be
\* opened for writing; both are caught and leave the file as it was.
update_lastbuild_only(f, now, canWrite) ==
    IF f.kind # "xml" THEN f
    ELSE IF ~f.hasChannel THEN f
    ELSE IF ~HasLastBuild(f.chan) THEN f
    ELSE IF ~canWrite THEN f
    ELSE [f EXCEPT !.chan[FindLastBuild(f.chan)].text = strftime(now)]

----------------------------------------------------------------------------
(* Inputs: link targets, anchors, pages, HTTP outcomes, files on disk *)

HrefDev == <<W("/en-gb"), W("/news/"), W("dev"), W("/patch-notes")>>

HrefVideo == <<W("https://www.youtube.com"), W("/watch")>>

HrefReview == <<W("https://www.gamersky.com"), W("/news/"), W("202507"), W(".shtml")>>

HrefBoth == <<W("/news/"), W("dev"), W("/diary"), W(".shtml")>>

HrefOther == <<W("/about")>>

ADated == Anchor(TRUE, HrefDev, <<W(" "), W("Dev"), W(" "), D(13, 7, 2025)>>, FALSE, <<>>)

ABadDate == Anchor(TRUE, HrefBoth, <<W("Dev"), W(" "), D(31, 2, 2025)>>, FALSE, <<>>)

ALeapDate == Anchor(TRUE, HrefDev, <<D(29, 2, 2024), W(" "), D(99, 99, 2025)>>, FALSE, <<>>)

AEmptyTitleAttr == Anchor(TRUE, HrefVideo, <<>>, TRUE, <<>>)

ATitleAttr == Anchor(TRUE, HrefVideo, <<W(" ")>>, TRUE, <<W("Tom"), W("&amp;"), W("Jerry")>>)

ANoText == Anchor(TRUE, HrefBoth, <<>>, FALSE, <<>>)

AEntity == Anchor(TRUE, HrefBoth, <<W("&#1;")>>, FALSE, <<>>)

AReview == Anchor(TRUE, HrefReview, <<W("Review")>>, FALSE, <<>>)

AOther == Anchor(TRUE, HrefOther, <<W("About")>>, FALSE, <<>>)

ANoHref == Anchor(FALSE, <<>>, <<W("Dev")>>, FALSE, <<>>)

AEmptyHref == Anchor(TRUE, <<>>, <<W("Dev")>>, FALSE, <<>>)

AFill == Anchor(TRUE, HrefBoth, <<W("Post")>>, FALSE, <<>>)

Anchors == {ADated, ABadDate, ALeapDate, AEmptyTitleAttr, ATitleAttr, ANoText,
            AEntity, AReview, AOther, ANoHref, AEmptyHref}

Fill(n) == [k \in 1..n |-> AFill]

ShortPages == UNION {[1..n -> Anchors] : n \in 0..MaxPageLen}

LongPages == {Fill(n) : n \in (MaxItems - 1)..MaxFill}
             \cup {<<ADated>> \o Fill(n) : n \in (MaxItems - 1)..MaxFill}

Response(kind, page) == [kind |-> kind, page |-> page]

NoResponse == Response("none", <<>>)

Failures == {Response("neterr", <<>>), Response("status", <<>>)}

ExtractResponses ==
    Failures \cup {Response("ok", p) : p \in ShortPages \cup LongPages}

RunPages == {<<ADated, ABadDate>>, Fill(MaxFill)}

RunResponses ==
    {Response("neterr", <<>>)} \cup {Response("ok", p) : p \in RunPages}

Sources == 1..3

\* feeds (the table of main); the texts of the third channel are written in
\* ASCII here
Feeds == <<
    [file |-> "league_dev_feed.xml",
     channel |-> [title |-> <<W("League of Legends Dev News")>>,
                  link |-> <<W("https://www.leagueoflegends.com/en-gb/news/dev/")>>,
                  description |-> <<W("Latest developer updates and diaries from the League of Legends team.")>>,
                  language |-> <<W("en")>>],
     fetcher |-> "fetch_league_dev"],
    [file |-> "valorant_dev_feed.xml",
     channel |-> [title |-> <<W("Valorant Dev News")>>,
                  link |-> <<W("https://playvalorant.com/en-us/news/dev/")>>,
                  description |-> <<W("Latest development updates and diaries from the VALORANT dev team.")>>,
                  language |-> <<W("en")>>],
     fetcher |-> "fetch_valorant_dev"],
    [file |-> "gamersky_review_feed.xml",
     channel |-> [title |-> <<W("gamersky reviews: latest articles")>>,
                  link |-> <<W("https://www.gamersky.com/review/")>>,
                  description |-> <<W("gamersky review articles with title, summary and picture.")>>,
                  language |-> <<W("zh-cn")>>],
     fetcher |-> "fetch_gamersky_reviews"] >>

\* feed["fetcher"]()
CallFetcher(name, r, now) ==
    CASE name = "fetch_league_dev" -> fetch_league_dev(r, now)
      [] name = "fetch_valorant_dev" -> fetch_valorant_dev(r, now)
      [] name = "fetch_gamersky_reviews" -> fetch_gamersky_reviews(r, now)

File(kind, hasChannel, chan) == [kind |-> kind, hasChannel |-> hasChannel, chan |-> chan]

Missing == File("missing", FALSE, <<>>)

Unreadable == File("unreadable", FALSE, <<>>)

Malformed == File("malformed", FALSE, <<>>)

NoChannel == File("xml", FALSE, <<>>)

Earlier == [year |-> Epoch.year, month |-> Epoch.month, day |-> Epoch.day - 1, sec |-> 0]

OldItem == Item(<<W("Old post")>>, strftime(Earlier), HrefDev)

OlderItem == Item(<<W("Older video")>>, strftime(Earlier), HrefVideo)

\* a feed of an earlier run, and the same feed without its lastBuildDate
OldFeed(i) == build_rss(Feeds[i].channel, <<OldItem, OlderItem>>, Earlier)

NoLastBuild(i) ==
    File("xml", TRUE, SelectSeq(OldFeed(i).chan, LAMBDA e : e.tag # "lastBuildDate"))

InitFiles(i) == {Missing, Unreadable, Malformed, NoChannel, NoLastBuild(i), OldFeed(i)}

----------------------------------------------------------------------------
(* main(): one step per fetcher call and one per write *)

Event(i, op) == [src |-> i, op |-> op]

NoOp == Event(0, "none")

NoRequests == [i \in Sources |-> 0]

StaySource(i) == i

\* for feed in feeds: the next element of the list
NextSource(i) == i + 1

LastSource == Len(Feeds)

Init ==
    /\ clock = 0
    /\ files \in {f \in [Sources -> UNION {InitFiles(i) : i \in Sources}] :
                    \A i \in Sources : f[i] \in InitFiles(i)}
    /\ idx = 1
    /\ phase = "fetch"
    /\ resp = NoResponse
    /\ items = <<>>
    /\ raised = FALSE
    /\ requests = NoRequests
    /\ lastOp = NoOp
    /\ bChannel = Feeds[1].channel
    /\ bItems = <<>>
    /\ bDoc = Missing

\* The wall clock moves on between any two steps.
Tick ==
    /\ phase \in {"fetch", "write", "done", "aborted"}
    /\ clock < MaxClock
    /\ clock' = clock + 1
    /\ UNCHANGED <<files, idx, phase, resp, items, raised, requests, lastOp,
                   bChannel, bItems, bDoc>>

\* items = feed["fetcher"]()
Fetch(i) ==
    /\ phase = "fetch"
    /\ idx = i
    /\ \E r \in RunResponses :
          LET res == CallFetcher(Feeds[i].fetcher, r, utcnow)
          IN  /\ resp' = r
              /\ items' = res.items
              /\ raised' = res.raised
    /\ requests' = [requests EXCEPT ![i] = @ + 1]
    /\ phase' = "write"
    /\ UNCHANGED <<clock, files, idx, lastOp, bChannel, bItems, bDoc>>

\* the end of one iteration of the for loop
Advance(i) ==
    /\ idx' = NextSource(i)
    /\ phase' = IF NextSource(i) > LastSource THEN "done" ELSE "fetch"
    /\ resp' = NoResponse
    /\ items' = <<>>
    /\ raised' = FALSE

\* if items: tree = build_rss(feed["channel"], items); tree.write(file_path, ...)
\* tree.write is outside any try: an OSError ends main() with a traceback.
Rebuild(i) ==
    /\ phase = "write"
    /\ idx = i
    /\ items # <<>>
    /\ \E canWrite \in BOOLEAN :
          IF canWrite
          THEN /\ files' = [files EXCEPT ![i] = build_rss(Feeds[i].channel, items, utcnow)]
               /\ lastOp' = Event(i, "rebuild")
               /\ Advance(i)
          ELSE /\ phase' = "aborted"
               /\ lastOp' = Event(i, "write_error")
               /\ UNCHANGED <<files, idx, resp, items, raised>>
    /\ UNCHANGED <<clock, requests, bChannel, bItems, bDoc>>

\* else: update_lastbuild_only(file_path)
Fallback(i) ==
    /\ phase = "write"
    /\ idx = i
    /\ items = <<>>
    /\ \E canWrite \in BOOLEAN :
          files' = [files EXCEPT ![i] = update_lastbuild_only(files[i], utcnow, canWrite)]
    /\ lastOp' = Event(i, "fallback")
    /\ Advance(i)
    /\ UNCHANGED <<clock, requests, bChannel, bItems, bDoc>>

\* The scheduler starts the script again.
NewRun ==
    /\ phase \in {"done", "aborted"}
    /\ idx' = 1
    /\ phase' = "fetch"
    /\ resp' = NoResponse
    /\ items' = <<>>
    /\ raised' = FALSE
    /\ requests' = NoRequests
    /\ lastOp' = NoOp
    /\ UNCHANGED <<clock, files, bChannel, bItems, bDoc>>

Next ==
    \/ Tick
    \/ \E i \in Sources : Fetch(i)
    \/ \E i \in Sources : Rebuild(i)
    \/ \E i \in Sources : Fallback(i)
    \/ NewRun

Spec == Init /\ [][Next]_vars

----------------------------------------------------------------------------
(* The extractors alone: each is run once on any response, and its result  *)
(* handed to build_rss as main() does for a non-empty list.                *)

InitExtract ==
    /\ clock \in 0..MaxClock
    /\ files = [i \in Sources |-> Missing]
    /\ idx \in Sources
    /\ phase = "extract"
    /\ resp \in ExtractResponses
    /\ items = <<>>
    /\ raised = FALSE
    /\ requests = NoRequests
    /\ lastOp = NoOp
    /\ bChannel = Feeds[1].channel
    /\ bItems = <<>>
    /\ bDoc = Missing

Extract(i, res) ==
    /\ phase = "extract"
    /\ idx = i
    /\ items' = res.items
    /\ raised' = res.raised
    /\ requests' = [requests EXCEPT ![i] = @ + 1]
    /\ phase' = "extracted"
    /\ UNCHANGED <<clock, files, idx, resp, lastOp, bChannel, bItems, bDoc>>

ExtractLeague == Extract(1, fetch_league_dev(resp, utcnow))

ExtractValorant == Extract(2, fetch_valorant_dev(resp, utcnow))

ExtractGamersky == Extract(3, fetch_gamersky_reviews(resp, utcnow))

BuildExtracted ==
    /\ phase = "extracted"
    /\ items # <<>>
    /\ bChannel' = Feeds[idx].channel
    /\ bItems' = items
    /\ bDoc' = build_rss(Feeds[idx].channel, items, utcnow)
    /\ phase' = "built"
    /\ UNCHANGED <<clock, files, idx, resp, items, raised, requests, lastOp>>

NextExtract ==
    \/ ExtractLeague
    \/ ExtractValorant
    \/ ExtractGamersky
    \/ BuildExtracted

SpecExtract == InitExtract /\ [][NextExtract]_vars

----------------------------------------------------------------------------
(* build_rss alone, on any channel mapping and any list of item mappings *)

Text == <<W("text")>>

Url == <<W("https://example.org/a")>>

Stamp == strftime(Earlier)

\* a mapping without some key: the key is absent, not empty
Without(d, keys) == [k \in (DOMAIN d) \ keys |-> d[k]]

FullChannel == [title |-> Text, link |-> Url, description |-> Text, language |-> <<W("en")>>]

BuildChannels ==
    {FullChannel,
     Without(FullChannel, {"language"}),
     [FullChannel EXCEPT !.language = <<>>],
     [FullChannel EXCEPT !.title = <<>>],
     Without(FullChannel, {"link", "description"}),
     Without(FullChannel, {"title", "link", "description", "language"})}

FullItem == [title |-> Text, description |-> Text, pubDate |-> Stamp, link |-> Url,
             guid |-> Url, enclosure_url |-> <<W("https://example.org/a.png")>>]

OtherItem == [title |-> <<W("other")>>, description |-> <<>>, pubDate |-> Stamp,
              link |-> Url, guid |-> <<>>, enclosure_url |-> <<>>]

BuildItems ==
    {FullItem, OtherItem,
     Without(FullItem, {"enclosure_url"}),
     Without(FullItem, {"description", "pubDate"}),
     [FullItem EXCEPT !.pubDate = <<>>, !.title = <<>>],
     Without(OtherItem, {"title", "description", "pubDate", "link", "guid"})}

BuildLists == UNION {[1..n -> BuildItems] : n \in 0..MaxPageLen}

InitBuild ==
    /\ clock \in 0..MaxClock
    /\ files = [i \in Sources |-> Missing]
    /\ idx = 1
    /\ phase = "build"
    /\ resp = NoResponse
    /\ items = <<>>
    /\ raised = FALSE
    /\ requests = NoRequests
    /\ lastOp = NoOp
    /\ bChannel \in BuildChannels
    /\ bItems \in BuildLists
    /\ bDoc = Missing

Build ==
    /\ phase = "build"
    /\ bDoc' = build_rss(bChannel, bItems, utcnow)
    /\ phase' = "built"
    /\ UNCHANGED <<clock, files, idx, resp, items, raised, requests, lastOp,
                   bChannel, bItems>>

NextBuild == Build

SpecBuild == InitBuild /\ [][NextBuild]_vars

----------------------------------------------------------------------------
(* Reading a tree back *)

ItemElems(chan) == SelectSeq(chan, LAMBDA e : e.tag = "item")

NumItems(f) == Len(ItemElems(f.chan))

HasChild(sub, tag) == \E k \in 1..Len(sub) : sub[k].tag = tag

ChildText(sub, tag) ==
    IF HasChild(sub, tag)
    THEN sub[CHOOSE k \in 1..Len(sub) : sub[k].tag = tag].text
    ELSE <<>>

EnclosureUrl(sub) ==
    IF HasChild(sub, "enclosure")
    THEN LET e == sub[CHOOSE k \in 1..Len(sub) : sub[k].tag = "enclosure"]
         IN  (CHOOSE a \in e.attrs : a.name = "url").value
    ELSE <<>>

\* the mapping an item element stands for; an absent child reads as empty text
ParsedItem(e) ==
    [title |-> ChildText(e.sub, "title"), description |-> ChildText(e.sub, "description"),
     pubDate |-> ChildText(e.sub, "pubDate"), link |-> ChildText(e.sub, "link"),
     guid |-> ChildText(e.sub, "guid"), enclosure_url |-> EnclosureUrl(e.sub)]

ParsedItems(f) == [k \in 1..NumItems(f) |-> ParsedItem(ItemElems(f.chan)[k])]

\* the children of the channel that are its metadata
MetaOnly(chan) == SelectSeq(chan, LAMBDA e : e.tag \notin {"item", "lastBuildDate"})

WellFormedFeed(f) == f.kind = "xml" /\ f.hasChannel /\ HasLastBuild(f.chan)

LastBuild(f) == f.chan[FindLastBuild(f.chan)].text[1]

MonthNumber(b) == CHOOSE m \in 1..12 : MonthNames[m] = b

\* s is not later than t, for two formatted timestamps
StampLE(s, t) ==
    LET ms == MonthNumber(s.b)
        mt == MonthNumber(t.b)
    IN  \/ s.Y < t.Y
        \/ s.Y = t.Y /\ ms < mt
        \/ s.Y = t.Y /\ ms = mt /\ s.d < t.d
        \/ s.Y = t.Y /\ ms = mt /\ s.d = t.d /\ s.HMS <= t.HMS

\* g is f with at most the text of its first lastBuildDate changed
SameButLastBuild(f, g) ==
    /\ WellFormedFeed(f)
    /\ g.kind = f.kind
    /\ g.hasChannel = f.hasChannel
    /\ Len(g.chan) = Len(f.chan)
    /\ \A k \in 1..Len(f.chan) :
          IF k = FindLastBuild(f.chan)
          THEN /\ g.chan[k].tag = "lastBuildDate"
               /\ g.chan[k].sub = f.chan[k].sub
               /\ g.chan[k].attrs = f.chan[k].attrs
          ELSE g.chan[k] = f.chan[k]

\* source i is in hand with its items fetched and its file not yet touched
Writing(i) == phase = "write" /\ idx = i

----------------------------------------------------------------------------
(* Claims *)

\* C1: every fetcher returns at most 10 items however many links match, and
\* every feed file holds at most 10 item elements after any sequence of runs;
\* a file just rebuilt holds between 1 and 10 of them.
C1_AtMostTenItems ==
    /\ Len(items) <= MaxItems
    /\ \A i \in Sources : files[i].kind = "xml" => NumItems(files[i]) <= MaxItems
    /\ \A i \in Sources :
          lastOp = Event(i, "rebuild") => NumItems(files[i]) \in 1..MaxItems

\* C1 witness: a file rebuilt from a page with more than 10 matching links
\* holds exactly 10 items.
C1_Witness ==
    \E i \in Sources :
        /\ lastOp = Event(i, "rebuild")
        /\ NumItems(files[i]) = MaxItems
        /\ MaxFill > MaxItems

\* C2 (as claimed): every item a fetcher returns has a non-empty title, link
\* and guid.
C2_FieldsNonEmpty ==
    \A k \in 1..Len(items) :
        /\ items[k].title # <<>>
        /\ items[k].link # <<>>
        /\ items[k].guid # <<>>

\* C3 (as claimed): a fetcher that went through its except clause returns no
\* items, so that main() takes the fallback branch.
C3_ExceptionMeansNoItems == raised => items = <<>>

\* C4: a fallback step on a well-formed feed keeps every element of the file
\* but the text of lastBuildDate, which does not move back in time.
C4_FallbackKeepsItems ==
    [][\A i \in Sources :
          (Writing(i) /\ items = <<>> /\ WellFormedFeed(files[i]) /\ phase' # "write")
          => /\ lastOp' = Event(i, "fallback")
             /\ SameButLastBuild(files[i], files'[i])
             /\ ParsedItems(files'[i]) = ParsedItems(files[i])
             /\ MetaOnly(files'[i].chan) = MetaOnly(files[i].chan)
             /\ StampLE(LastBuild(files[i]), LastBuild(files'[i]))]_vars

\* C4 witness: after a fallback the old feed has its two items and a newer
\* lastBuildDate.
C4_Witness ==
    \E i \in Sources :
        /\ lastOp = Event(i, "fallback")
        /\ WellFormedFeed(files[i])
        /\ ParsedItems(files[i]) = <<OldItem, OlderItem>>
        /\ LastBuild(files[i]) = strftime(utcnow)[1]
        /\ clock = MaxClock

\* C5: a fallback step on a file that is missing, unreadable, malformed or
\* without channel or lastBuildDate changes no file and does not end the run.
C5_FallbackNoOp ==
    [][\A i \in Sources :
          (Writing(i) /\ items = <<>> /\ ~WellFormedFeed(files[i]) /\ phase' # "write")
          => /\ files' = files
             /\ phase' \in {"fetch", "done"}
             /\ lastOp' = Event(i, "fallback")]_vars

\* C5 witness: the fallback has run on each kind of file it cannot update.
C5_Witness ==
    /\ phase = "done"
    /\ lastOp = Event(3, "fallback")
    /\ files[1] = Missing
    /\ files[2] = NoChannel
    /\ files[3] = NoLastBuild(3)

\* C6 (as claimed): no run is ever aborted.
C6_NeverAborts == phase # "aborted"


\* the file of source i holds exactly the channel metadata of source i
OwnChannel(i, f) ==
    /\ Len(MetaOnly(f.chan)) = Len(ChannelKeys)
    /\ \A k \in 1..Len(ChannelKeys) :
          /\ MetaOnly(f.chan)[k].tag = ChannelKeys[k]
          /\ MetaOnly(f.chan)[k].text = Feeds[i].channel[ChannelKeys[k]]

\* C7: the step of main() that handles the fetched list of source i and
\* returns either (one or more items) leaves in the file of source i a feed
\* with the channel metadata of source i and exactly the fetched items in
\* the order fetched, whatever the file held, or (no items) takes the
\* fallback branch, which changes at most the lastBuildDate of the file.
C7_RebuildOrFallback ==
    [][\A i \in Sources :
          (Writing(i) /\ phase' \in {"fetch", "done"})
          => IF items # <<>>
             THEN /\ lastOp' = Event(i, "rebuild")
                  /\ WellFormedFeed(files'[i])
                  /\ OwnChannel(i, files'[i])
                  /\ ParsedItems(files'[i]) = items
             ELSE /\ lastOp' = Event(i, "fallback")
                  /\ \/ files'[i] = files[i]
                     \/ SameButLastBuild(files[i], files'[i])]_vars

\* C7 witness: the old two-item feed of the second source has been replaced
\* by the two items fetched in this run, in page order.
C7_Witness ==
    /\ lastOp = Event(2, "rebuild")
    /\ OwnChannel(2, files[2])
    /\ NumItems(files[2]) = 2
    /\ ParsedItems(files[2])[1].link = HrefDev
    /\ ParsedItems(files[2])[2].link = HrefBoth
    /\ ParsedItems(files[2])[1] \notin {OldItem, OlderItem}

\* the links of the page that fetch_league_dev accepts, in page order
LeagueMatches(page) == SelectSeq(find_all_a_href(page), LAMBDA a : MatchDev(a.href))

Min(a, b) == IF a <= b THEN a ELSE b

\* the publication date the claim gives a League title: the day named by a
\* DD/MM/YYYY substring that is a date of the calendar, else the current time
ClaimedPubDate(title) ==
    IF HasDateMatch(title) /\ StrptimeOk(DateMatch(title))
    THEN strftime(strptime(DateMatch(title)))
    ELSE strftime(utcnow)

\* C8 (as claimed): fetch_league_dev produces an item for every matching
\* link (up to 10), dated by the DD/MM/YYYY date in its title when that is a
\* calendar date and stamped with the current UTC time in every other case.
C8_EveryLinkDated ==
    (phase = "extracted" /\ idx = 1 /\ resp.kind = "ok")
    => LET m == LeagueMatches(resp.page)
       IN  /\ Len(items) = Min(Len(m), MaxItems)
           /\ \A k \in 1..Min(Len(m), Len(items)) :
                 items[k].pubDate = ClaimedPubDate(TitleOf(m[k], LeagueDefault))

\* a key that is in the mapping with a non-empty value
Present(d, key) == key \in DOMAIN d /\ Len(d[key]) > 0

PresentKeys(d, keys) == SelectSeq(keys, LAMBDA k : Present(d, k))

\* the children of one item element are those the claim lists for item
RightItemElement(e, item) ==
    LET tags == PresentKeys(item, ItemTags)
        enc == Present(item, "enclosure_url")
    IN  /\ e.tag = "item"
        /\ Len(e.sub) = Len(tags) + (IF enc THEN 1 ELSE 0)
        /\ \A k \in 1..Len(tags) :
              /\ e.sub[k].tag = tags[k]
              /\ e.sub[k].text = item[tags[k]]
              /\ e.sub[k].sub = <<>>
        /\ enc => LET x == e.sub[Len(e.sub)]
                  IN  /\ x.tag = "enclosure"
                      /\ x.attrs = {Attr("url", item["enclosure_url"]),
                                    Attr("length", <<W("0")>>),
                                    Attr("type", <<W("image/*")>>)}

\* C9: the tree build_rss returns has one channel whose children are the
\* present, non-empty ones of title, link, description, language in that
\* order, then one lastBuildDate holding the current time, then one item
\* element per input item in input order, each with its present, non-empty
\* title, description, pubDate, link, guid in that order and an enclosure
\* (length "0", type "image/*") exactly when enclosure_url is non-empty.
C9_DocumentShape ==
    phase = "built"
    => LET keys == PresentKeys(bChannel, ChannelKeys)
           h == Len(keys)
           chan == bDoc.chan
       IN  /\ bDoc.kind = "xml"
           /\ bDoc.hasChannel
           /\ Len(chan) = h + 1 + Len(bItems)
           /\ \A k \in 1..h :
                 chan[k].tag = keys[k] /\ chan[k].text = bChannel[keys[k]]
           /\ chan[h + 1].tag = "lastBuildDate"
           /\ chan[h + 1].text = strftime(utcnow)
           /\ \A k \in 1..Len(bItems) : RightItemElement(chan[h + 1 + k], bItems[k])

\* C9 witness: a channel without language, an item with every field and an
\* enclosure, and an item without description and pubDate have been built.
C9_Witness ==
    /\ phase = "built"
    /\ bChannel = Without(FullChannel, {"language"})
    /\ bItems = <<FullItem, Without(FullItem, {"description", "pubDate"})>>
    /\ Len(bDoc.chan) = 6
    /\ Len(bDoc.chan[5].sub) = 6
    /\ Len(bDoc.chan[6].sub) = 4

\* source i has been reached by the loop of this run
Reached(i) == i < idx \/ (i = idx /\ phase \in {"write", "aborted"})

C10_State ==
    /\ \A i \in Sources : requests[i] = (IF Reached(i) THEN 1 ELSE 0)
    /\ phase = "done" => \A i \in Sources : requests[i] = 1

C10_Step ==
    /\ \A i \in Sources :
          requests'[i] > requests[i]
          => /\ phase = "fetch" /\ idx = i /\ phase' = "write"
             /\ files' = files
             /\ \A j \in Sources : requests[j] = (IF j < i THEN 1 ELSE 0)
    /\ \A i \in Sources :
          files'[i] # files[i]
          => /\ Writing(i)
             /\ requests[i] = 1
             /\ requests' = requests
             /\ \A j \in Sources : j > i => requests[j] = 0
             /\ \A j \in Sources : j # i => files'[j] = files[j]
             /\ idx' = i + 1

====
